---- MODULE Spec2Model ----
(***************************************************************************)
(* Prediction query and aggregation engine of the PrizePicks predictor web *)
(* application: the GET route handler of /api/predictions (list, summary,  *)
(* performance and invalid-endpoint requests) over the mockPredictions     *)
(* snapshot.                                                               *)
(*                                                                         *)
(* Representation.                                                         *)
(*  - JavaScript strings that the code inspects character by character     *)
(*    (player names, numeric query parameters) are sequences of one-       *)
(*    character strings; strings that are only compared for equality       *)
(*    (sport, stat, team, sortBy, ...) are TLA+ strings.                   *)
(*  - An ISO-8601 text is the tuple of its numeric fields:                 *)
(*    '2025-03-21T20:00:00Z' is <<2025, 3, 21, 20, 0>> and the date-only   *)
(*    '2025-03-21' is <<2025, 3, 21>>.  Every date of the data set lies in *)
(*    March 2025, and the Date model covers that month.                    *)
(*  - line and predictedValue have one decimal and are stored times ten.   *)
(*  - overProbability and keyFactors are never read by the handler and are *)
(*    left out of the records.                                             *)
(*  - A query parameter is [has |-> BOOLEAN, val |-> text]; has = FALSE is *)
(*    the null that URLSearchParams.get returns for a missing parameter.   *)
(***************************************************************************)
EXTENDS Integers, Sequences, FiniteSets, TLC

VARIABLES
  mockPredictions,  \* the stored snapshot (module-level array of the route)
  pc,               \* "idle" | "pending" | "responded": position of the one request in flight
  request,          \* searchParams of the request in flight
  response,         \* what GET returned for it
  predictionsHook,     \* usePredictionsData: [loading, error, predictionsData, filters]
  predictionsFetches,  \* queries of the fetches usePredictionsData has issued and not seen return
  confidenceChecked,   \* ids of the checked input[name="confidence"] boxes of FilterPanel
  performanceHook,     \* usePerformanceData: [loading, error, performanceData, timePeriod, customDateRange]
  performanceFetches,  \* queries of the fetches usePerformanceData has issued and not seen return
  pageButtons          \* the page buttons the Predictions page has rendered

serverVars == <<mockPredictions, pc, request, response>>
predictionsVars == <<predictionsHook, predictionsFetches, confidenceChecked>>
performanceVars == <<performanceHook, performanceFetches>>
clientVars == <<predictionsVars, performanceVars, pageButtons>>
vars == <<serverVars, clientVars>>

(***************************************************************************)
(* Text helpers                                                            *)
(***************************************************************************)
\* The element of a one-element set.  Only({e(v) : v \in {x}}) is e with v
\* standing for the value of x, computed once: a const declaration followed
\* by the expression that uses it.
Only(S) == CHOOSE r \in S : TRUE

Min(a, b) == IF a < b THEN a ELSE b
Max(a, b) == IF a > b THEN a ELSE b

UpperCase == <<"A", "B", "C", "D", "E", "F", "G", "H", "I", "J", "K", "L", "M",
               "N", "O", "P", "Q", "R", "S", "T", "U", "V", "W", "X", "Y", "Z">>
LowerCase == <<"a", "b", "c", "d", "e", "f", "g", "h", "i", "j", "k", "l", "m",
               "n", "o", "p", "q", "r", "s", "t", "u", "v", "w", "x", "y", "z">>
Digits == <<"0", "1", "2", "3", "4", "5", "6", "7", "8", "9">>

IndexIn(c, alphabet) ==
  IF \E i \in 1..Len(alphabet) : alphabet[i] = c
    THEN CHOOSE i \in 1..Len(alphabet) : alphabet[i] = c
    ELSE 0

\* String.prototype.toLowerCase, one character: only cased letters change.
LowerChar(c) ==
  IF IndexIn(c, UpperCase) > 0 THEN LowerCase[IndexIn(c, UpperCase)]
  ELSE IF c = "C-acute" THEN "c-acute"
  ELSE IF c = "C-caron" THEN "c-caron"
  ELSE c

toLowerCase(s) == [i \in 1..Len(s) |-> LowerChar(s[i])]

\* String.prototype.includes: needle occurs as a contiguous run of haystack.
includes(haystack, needle) ==
  \E i \in 0..(Len(haystack) - Len(needle)) :
     \A k \in 1..Len(needle) : haystack[i + k] = needle[k]

\* Collation of String.prototype.localeCompare (root collation): letters are
\* ordered alphabetically without regard to case or accent, the space sorts
\* before every letter; accent, then case (lower first), only break ties.
BaseChar(c) ==
  LET l == LowerChar(c) IN IF l \in {"c-acute", "c-caron"} THEN "c" ELSE l

PrimaryWeight(c) ==
  IF c = " " THEN 0
  ELSE IF IndexIn(BaseChar(c), LowerCase) > 0 THEN Len(Digits) + IndexIn(BaseChar(c), LowerCase)
  ELSE IF IndexIn(c, Digits) > 0 THEN IndexIn(c, Digits)
  ELSE Len(Digits) + Len(LowerCase) + 1

SecondaryWeight(c) == IF LowerChar(c) = BaseChar(c) THEN 0 ELSE 1
TertiaryWeight(c) == IF LowerChar(c) = c THEN 0 ELSE 1

Weight(level, c) ==
  CASE level = "primary" -> PrimaryWeight(c)
    [] level = "secondary" -> SecondaryWeight(c)
    [] OTHER -> TertiaryWeight(c)

RECURSIVE CompareKeys(_, _, _, _)
CompareKeys(a, b, i, level) ==
  IF i > Len(a) /\ i > Len(b) THEN 0
  ELSE IF i > Len(a) THEN -1
  ELSE IF i > Len(b) THEN 1
  ELSE IF Weight(level, a[i]) < Weight(level, b[i]) THEN -1
  ELSE IF Weight(level, a[i]) > Weight(level, b[i]) THEN 1
  ELSE CompareKeys(a, b, i + 1, level)

localeCompare(a, b) ==
  LET p == CompareKeys(a, b, 1, "primary")
      s == CompareKeys(a, b, 1, "secondary")
  IN  IF p # 0 THEN p
      ELSE IF s # 0 THEN s
      ELSE CompareKeys(a, b, 1, "tertiary")

(***************************************************************************)
(* Numbers: parseInt and Number.prototype.toString                         *)
(***************************************************************************)
NaN == [nan |-> TRUE, n |-> 0]
Num(n) == [nan |-> FALSE, n |-> n]

\* Length of the longest prefix of s (from position i) made of decimal digits.
RECURSIVE DigitPrefix(_, _)
DigitPrefix(s, i) ==
  IF i > Len(s) \/ IndexIn(s[i], Digits) = 0 THEN 0 ELSE 1 + DigitPrefix(s, i + 1)

RECURSIVE DigitsValue(_, _)
DigitsValue(s, k) ==
  IF k = 0 THEN 0 ELSE 10 * DigitsValue(s, k - 1) + (IndexIn(s[k], Digits) - 1)

\* parseInt(s): optional sign, then the longest run of digits; NaN when there
\* is no digit at the start (trailing text such as ".5" or "px" is ignored).
parseInt(s) ==
  LET neg == Len(s) > 0 /\ s[1] = "-"
      body == IF Len(s) > 0 /\ s[1] \in {"-", "+"} THEN Tail(s) ELSE s
      k == DigitPrefix(body, 1)
  IN  IF k = 0 THEN NaN
      ELSE Num(IF neg THEN 0 - DigitsValue(body, k) ELSE DigitsValue(body, k))

\* n.toString() for a non-negative integer.
RECURSIVE toString(_)
toString(n) ==
  IF n < 10 THEN <<Digits[n + 1]>>
  ELSE toString(n \div 10) \o <<Digits[(n % 10) + 1]>>

(***************************************************************************)
(* Dates: new Date(text), getTime, toISOString().split('T')[0]             *)
(***************************************************************************)
\* new Date(text).getTime() in minutes since 2025-03-01T00:00Z; NaN for a
\* text that is not a date ("Invalid Date").  A date-only text is UTC midnight.
DateParse(text) ==
  IF Len(text) \in {3, 5} /\ text[1] = 2025 /\ text[2] = 3 /\ text[3] \in 1..31
    THEN LET h == IF Len(text) = 5 THEN text[4] ELSE 0
             m == IF Len(text) = 5 THEN text[5] ELSE 0
         IN  Num(((text[3] - 1) * 24 + h) * 60 + m)
    ELSE NaN

\* date.toISOString().split('T')[0]: the UTC calendar date of the instant.
\* toISOString throws a RangeError on an Invalid Date: reported as throws.
ISODate(t) ==
  IF t.nan THEN [throws |-> TRUE, date |-> <<>>]
  ELSE [throws |-> FALSE, date |-> <<2025, 3, (t.n \div (24 * 60)) + 1>>]

(***************************************************************************)
(* mockPredictions: the reference data set of 14 records.  The accented    *)
(* letters of two names are the one-character symbols "c-acute" and        *)
(* "c-caron".                                                              *)
(***************************************************************************)
\* 'LeBron James'
Name1 == <<"L", "e", "B", "r", "o", "n", " ", "J", "a", "m", "e", "s">>

\* mockPredictions[1] (lines 324-342): line 25.5, predictedValue 27.5
P1 ==
  [id |-> "1", player |-> Name1,
   team |-> "LAL", opponent |-> "BOS", gameTime |-> <<2025, 3, 21, 20, 0>>,
   sport |-> "NBA", stat |-> "Points", line |-> 255, predictedValue |-> 275,
   confidence |-> 80, confidenceCategory |-> "High"]

\* 'Stephen Curry'
Name2 == <<"S", "t", "e", "p", "h", "e", "n", " ", "C", "u", "r", "r", "y">>

\* mockPredictions[2] (lines 343-361): line 4.5, predictedValue 5.8
P2 ==
  [id |-> "2", player |-> Name2,
   team |-> "GSW", opponent |-> "PHX", gameTime |-> <<2025, 3, 21, 22, 30>>,
   sport |-> "NBA", stat |-> "3-Pointers", line |-> 45, predictedValue |-> 58,
   confidence |-> 92, confidenceCategory |-> "Very High"]

\* 'Nikola Jokic'
Name3 == <<"N", "i", "k", "o", "l", "a", " ", "J", "o", "k", "i", "c-acute">>

\* mockPredictions[3] (lines 362-380): line 8.5, predictedValue 10.2
P3 ==
  [id |-> "3", player |-> Name3,
   team |-> "DEN", opponent |-> "MIA", gameTime |-> <<2025, 3, 22, 19, 0>>,
   sport |-> "NBA", stat |-> "Assists", line |-> 85, predictedValue |-> 102,
   confidence |-> 85, confidenceCategory |-> "High"]

\* 'Joel Embiid'
Name4 == <<"J", "o", "e", "l", " ", "E", "m", "b", "i", "i", "d">>

\* mockPredictions[4] (lines 381-399): line 11.5, predictedValue 10.3
P4 ==
  [id |-> "4", player |-> Name4,
   team |-> "PHI", opponent |-> "NYK", gameTime |-> <<2025, 3, 22, 19, 30>>,
   sport |-> "NBA", stat |-> "Rebounds", line |-> 115, predictedValue |-> 103,
   confidence |-> 75, confidenceCategory |-> "High"]

\* 'Luka Doncic'
Name5 == <<"L", "u", "k", "a", " ", "D", "o", "n", "c-caron", "i", "c-acute">>

\* mockPredictions[5] (lines 400-418): line 47.5, predictedValue 52.3
P5 ==
  [id |-> "5", player |-> Name5,
   team |-> "DAL", opponent |-> "LAC", gameTime |-> <<2025, 3, 22, 20, 30>>,
   sport |-> "NBA", stat |-> "Points + Rebounds + Assists", line |-> 475, predictedValue |-> 523,
   confidence |-> 70, confidenceCategory |-> "Moderate"]

\* 'Jayson Tatum'
Name6 == <<"J", "a", "y", "s", "o", "n", " ", "T", "a", "t", "u", "m">>

\* mockPredictions[6] (lines 419-437): line 28.5, predictedValue 26.8
P6 ==
  [id |-> "6", player |-> Name6,
   team |-> "BOS", opponent |-> "LAL", gameTime |-> <<2025, 3, 21, 20, 0>>,
   sport |-> "NBA", stat |-> "Points", line |-> 285, predictedValue |-> 268,
   confidence |-> 65, confidenceCategory |-> "Moderate"]

\* 'Patrick Mahomes'
Name7 == <<"P", "a", "t", "r", "i", "c", "k", " ", "M", "a", "h", "o", "m", "e", "s">>

\* mockPredictions[7] (lines 438-456): line 285.5, predictedValue 310.2
P7 ==
  [id |-> "7", player |-> Name7,
   team |-> "KC", opponent |-> "BAL", gameTime |-> <<2025, 3, 23, 18, 0>>,
   sport |-> "NFL", stat |-> "Passing Yards", line |-> 2855, predictedValue |-> 3102,
   confidence |-> 75, confidenceCategory |-> "High"]

\* 'Lamar Jackson'
Name8 == <<"L", "a", "m", "a", "r", " ", "J", "a", "c", "k", "s", "o", "n">>

\* mockPredictions[8] (lines 457-475): line 65.5, predictedValue 78.3
P8 ==
  [id |-> "8", player |-> Name8,
   team |-> "BAL", opponent |-> "KC", gameTime |-> <<2025, 3, 23, 18, 0>>,
   sport |-> "NFL", stat |-> "Rushing Yards", line |-> 655, predictedValue |-> 783,
   confidence |-> 72, confidenceCategory |-> "High"]

\* 'Shohei Ohtani'
Name9 == <<"S", "h", "o", "h", "e", "i", " ", "O", "h", "t", "a", "n", "i">>

\* mockPredictions[9] (lines 476-494): line 7.5, predictedValue 8.7
P9 ==
  [id |-> "9", player |-> Name9,
   team |-> "LAD", opponent |-> "SF", gameTime |-> <<2025, 3, 22, 21, 10>>,
   sport |-> "MLB", stat |-> "Strikeouts", line |-> 75, predictedValue |-> 87,
   confidence |-> 68, confidenceCategory |-> "Moderate"]

\* 'Aaron Judge'
Name10 == <<"A", "a", "r", "o", "n", " ", "J", "u", "d", "g", "e">>

\* mockPredictions[10] (lines 495-513): line 1.5, predictedValue 2.3
P10 ==
  [id |-> "10", player |-> Name10,
   team |-> "NYY", opponent |-> "BOS", gameTime |-> <<2025, 3, 22, 18, 5>>,
   sport |-> "MLB", stat |-> "Total Bases", line |-> 15, predictedValue |-> 23,
   confidence |-> 82, confidenceCategory |-> "High"]

\* 'Connor McDavid'
Name11 == <<"C", "o", "n", "n", "o", "r", " ", "M", "c", "D", "a", "v", "i", "d">>

\* mockPredictions[11] (lines 514-532): line 1.5, predictedValue 1.8
P11 ==
  [id |-> "11", player |-> Name11,
   team |-> "EDM", opponent |-> "VGK", gameTime |-> <<2025, 3, 22, 22, 0>>,
   sport |-> "NHL", stat |-> "Points", line |-> 15, predictedValue |-> 18,
   confidence |-> 67, confidenceCategory |-> "Moderate"]

\* 'Auston Matthews'
Name12 == <<"A", "u", "s", "t", "o", "n", " ", "M", "a", "t", "t", "h", "e", "w", "s">>

\* mockPredictions[12] (lines 533-551): line 4.5, predictedValue 5.7
P12 ==
  [id |-> "12", player |-> Name12,
   team |-> "TOR", opponent |-> "MTL", gameTime |-> <<2025, 3, 22, 19, 0>>,
   sport |-> "NHL", stat |-> "Shots on Goal", line |-> 45, predictedValue |-> 57,
   confidence |-> 85, confidenceCategory |-> "High"]

\* 'Erling Haaland'
Name13 == <<"E", "r", "l", "i", "n", "g", " ", "H", "a", "a", "l", "a", "n", "d">>

\* mockPredictions[13] (lines 552-570): line 2.5, predictedValue 3.2
P13 ==
  [id |-> "13", player |-> Name13,
   team |-> "MCI", opponent |-> "ARS", gameTime |-> <<2025, 3, 23, 16, 30>>,
   sport |-> "Soccer", stat |-> "Shots on Target", line |-> 25, predictedValue |-> 32,
   confidence |-> 73, confidenceCategory |-> "High"]

\* 'Mohamed Salah'
Name14 == <<"M", "o", "h", "a", "m", "e", "d", " ", "S", "a", "l", "a", "h">>

\* mockPredictions[14] (lines 571-589): line 0.5, predictedValue 0.9
P14 ==
  [id |-> "14", player |-> Name14,
   team |-> "LIV", opponent |-> "CHE", gameTime |-> <<2025, 3, 23, 14, 0>>,
   sport |-> "Soccer", stat |-> "Goal Contributions", line |-> 5, predictedValue |-> 9,
   confidence |-> 78, confidenceCategory |-> "High"]

ReferenceDataset_Mislabelled ==
  <<P1, P2, P3, [P4 EXCEPT !.confidenceCategory = "Moderate"], P5, P6, P7, P8, P9, P10, P11,
    P12, P13, P14>>
ReferenceDataset == <<P1, P2, P3, P4, P5, P6, P7, P8, P9, P10, P11, P12, P13, P14>>

(***************************************************************************)
(* mockPerformance: forwarded unchanged by the performance endpoint.  The  *)
(* handler never looks inside; overall and the two breakdown tables are    *)
(* kept, the per-stat tables and the trend series are left out.            *)
(***************************************************************************)
mockPerformance ==
  [overall |-> [accuracy |-> 72, highConfidenceAccuracy |-> 78, totalPredictions |-> 1245],
   bySport |-> [NBA |-> [accuracy |-> 78, predictions |-> 856],
                NFL |-> [accuracy |-> 68, predictions |-> 156],
                MLB |-> [accuracy |-> 74, predictions |-> 98],
                NHL |-> [accuracy |-> 65, predictions |-> 87],
                Soccer |-> [accuracy |-> 62, predictions |-> 48]],
   byConfidence |-> [VeryHigh |-> [accuracy |-> 86, predictions |-> 124],
                     High |-> [accuracy |-> 78, predictions |-> 356],
                     Moderate |-> [accuracy |-> 65, predictions |-> 487],
                     Low |-> [accuracy |-> 52, predictions |-> 198],
                     VeryLow |-> [accuracy |-> 41, predictions |-> 80]]]

(***************************************************************************)
(* Query parameters                                                        *)
(***************************************************************************)
Present(v) == [has |-> TRUE, val |-> v]
AbsentText == [has |-> FALSE, val |-> ""]     \* a missing equality-compared parameter
AbsentChars == [has |-> FALSE, val |-> <<>>]  \* a missing character-inspected parameter

\* JavaScript truthiness of searchParams.get(name): null and '' are falsy.
TruthyText_Has(param) == param.has
TruthyText(param) == param.has /\ param.val # ""
TruthyChars(param) == param.has /\ Len(param.val) > 0

\* searchParams.get(name) || fallback
TextOrDefault(param, fallback) == IF TruthyText(param) THEN param.val ELSE fallback
CharsOrDefault(param, fallback) == IF TruthyChars(param) THEN param.val ELSE fallback

(***************************************************************************)
(* Arrays.  The handler works on references: heap.mock is the module-level *)
(* mockPredictions array, heap.local the array its local variable holds    *)
(* when that is a different object, heap.ref says which one the local      *)
(* variable refers to.                                                     *)
(***************************************************************************)
Deref(heap) == IF heap.ref = "mock" THEN heap.mock ELSE heap.local

\* let filteredPredictions = [...mockPredictions]: a new array, same elements.
SpreadCopy_Alias(mock) == [mock |-> mock, local |-> <<>>, ref |-> "mock"]
SpreadCopy(mock) == [mock |-> mock, local |-> mock, ref |-> "local"]

\* A chain that starts on mockPredictions itself (mockPredictions.filter(...)).
OnMock(mock) == [mock |-> mock, local |-> <<>>, ref |-> "mock"]

\* The elements of the array the reference points to.
Elements(heap) == {Deref(heap)[i] : i \in 1..Len(Deref(heap))}

\* arr.filter(callback), keep[p] being what the callback returns for element
\* p: always a new array; the receiver is left as it is.
ArrayFilter_Reversed(heap, keep) ==
  [heap EXCEPT !.local = Only({[i \in 1..Len(kept) |-> kept[Len(kept) + 1 - i]] :
                                 kept \in {SelectSeq(Deref(heap), LAMBDA p : keep[p])}}),
               !.ref = "local"]
ArrayFilter_DropFirst(heap, keep) ==
  [heap EXCEPT !.local = Only({IF kept = <<>> THEN kept ELSE Tail(kept) :
                                 kept \in {SelectSeq(Deref(heap), LAMBDA p : keep[p])}}),
               !.ref = "local"]
ArrayFilter(heap, keep) ==
  [heap EXCEPT !.local = SelectSeq(Deref(heap), LAMBDA p : keep[p]), !.ref = "local"]

\* arr.slice(start, end) on numbers that may be NaN (taken as 0) or negative
\* (counted from the end); both ends are clamped to the length.
SliceIndex(len, k) ==
  IF k.nan THEN 0
  ELSE IF k.n < 0 THEN Max(len + k.n, 0)
  ELSE Min(k.n, len)

ArraySlice_ClampToLast(arr, start, end) ==
  SubSeq(arr, Min(SliceIndex(Len(arr), start), Max(Len(arr) - 1, 0)) + 1,
              SliceIndex(Len(arr), end))
ArraySlice(arr, start, end) ==
  SubSeq(arr, SliceIndex(Len(arr), start) + 1, SliceIndex(Len(arr), end))

(***************************************************************************)
(* Sorting                                                                 *)
(***************************************************************************)
\* The switch (sortBy) of the list comparator: the sign of a - b on the key.
Sign(x) == IF x < 0 THEN -1 ELSE IF x > 0 THEN 1 ELSE 0

Comparison_LineByValue(sortBy, a, b) ==
  CASE sortBy = "confidence" -> Sign(a.confidence - b.confidence)
    [] sortBy = "gameTime" -> Sign(DateParse(a.gameTime).n - DateParse(b.gameTime).n)
    [] sortBy = "player" -> localeCompare(a.player, b.player)
    [] sortBy = "line" -> Sign(a.predictedValue - b.predictedValue)
    [] sortBy = "predictedValue" -> Sign(a.predictedValue - b.predictedValue)
    [] OTHER -> Sign(a.confidence - b.confidence)
Comparison_NoDefault(sortBy, a, b) ==
  CASE sortBy = "confidence" -> Sign(a.confidence - b.confidence)
    [] sortBy = "gameTime" -> Sign(DateParse(a.gameTime).n - DateParse(b.gameTime).n)
    [] sortBy = "player" -> localeCompare(a.player, b.player)
    [] sortBy = "line" -> Sign(a.line - b.line)
    [] sortBy = "predictedValue" -> Sign(a.predictedValue - b.predictedValue)
    [] OTHER -> 0
Comparison(sortBy, a, b) ==
  CASE sortBy = "confidence" -> Sign(a.confidence - b.confidence)
    [] sortBy = "gameTime" -> Sign(DateParse(a.gameTime).n - DateParse(b.gameTime).n)
    [] sortBy = "player" -> localeCompare(a.player, b.player)
    [] sortBy = "line" -> Sign(a.line - b.line)
    [] sortBy = "predictedValue" -> Sign(a.predictedValue - b.predictedValue)
    [] OTHER -> Sign(a.confidence - b.confidence)

\* return sortOrder === 'asc' ? comparison : -comparison
Directed_AlwaysAscending(sortOrder, comparison) == comparison
Directed(sortOrder, comparison) ==
  IF sortOrder = "asc" THEN comparison ELSE 0 - comparison

\* The two comparators handed to Array.prototype.sort: the list comparator
\* [kind |-> "list", sortBy, sortOrder] and the one of featuredPredictions.
ListComparator(sortBy, sortOrder) == [kind |-> "list", sortBy |-> sortBy, sortOrder |-> sortOrder]
FeaturedComparator == [kind |-> "featured", sortBy |-> "confidence", sortOrder |-> "desc"]

CompareFn(cmp, a, b) ==
  IF cmp.kind = "list" THEN Directed(cmp.sortOrder, Comparison(cmp.sortBy, a, b))
  ELSE Sign(b.confidence - a.confidence)

\* Array.prototype.sort is stable (ECMAScript 2019): an insertion sort that
\* moves an element left only past the elements that compare greater.
\* InsertPosition: how many elements of sorted[1..j] stay in front of x.
RECURSIVE InsertPosition_Unstable(_, _, _, _)
InsertPosition_Unstable(sorted, x, cmp, j) ==
  IF j = 0 THEN 0
  ELSE IF CompareFn(cmp, sorted[j], x) >= 0 THEN InsertPosition_Unstable(sorted, x, cmp, j - 1)
  ELSE j

RECURSIVE InsertPosition(_, _, _, _)
InsertPosition(sorted, x, cmp, j) ==
  IF j = 0 THEN 0
  ELSE IF CompareFn(cmp, sorted[j], x) > 0 THEN InsertPosition(sorted, x, cmp, j - 1)
  ELSE j

InsertSorted(sorted, x, cmp) ==
  Only({SubSeq(sorted, 1, j) \o <<x>> \o SubSeq(sorted, j + 1, Len(sorted)) :
          j \in {InsertPosition(sorted, x, cmp, Len(sorted))}})

RECURSIVE SortedPrefix(_, _, _)
SortedPrefix(arr, k, cmp) ==
  IF k = 0 THEN <<>>
  ELSE Only({InsertSorted(sorted, arr[k], cmp) : sorted \in {SortedPrefix(arr, k - 1, cmp)}})

\* arr.sort(cmp): sorts the array the reference points to, in place.
ArraySort(heap, cmp) ==
  IF heap.ref = "mock"
    THEN [heap EXCEPT !.mock = SortedPrefix(heap.mock, Len(heap.mock), cmp)]
    ELSE [heap EXCEPT !.local = SortedPrefix(heap.local, Len(heap.local), cmp)]

(***************************************************************************)
(* GET, case 'predictions'                                                 *)
(***************************************************************************)
SportMatches(p, sport) == p.sport = sport

ConfidenceMatches(p, minConfidence) ==
  LET bound == parseInt(minConfidence) IN ~bound.nan /\ p.confidence >= bound.n

DateMatches(p, targetDate) == ISODate(DateParse(p.gameTime)).date = targetDate

StatMatches(p, stat) == p.stat = stat

TeamMatches_TeamOnly(p, team) == p.team = team
TeamMatches_OpponentOnly(p, team) == p.opponent = team
TeamMatches(p, team) == p.team = team \/ p.opponent = team

PlayerMatches(p, player) == includes(toLowerCase(p.player), toLowerCase(player))

\* The six filter steps, in source order.
SportFilter(sp, heap) ==
  IF TruthyText(sp.sport)
    THEN ArrayFilter(heap, [p \in Elements(heap) |-> SportMatches(p, sp.sport.val)])
    ELSE heap

ConfidenceFilter(sp, heap) ==
  IF TruthyChars(sp.minConfidence)
    THEN ArrayFilter(heap, [p \in Elements(heap) |-> ConfidenceMatches(p, sp.minConfidence.val)])
    ELSE heap

\* new Date(date).toISOString() throws a RangeError on an unparseable date,
\* and so would a record whose gameTime is not a date.
DateFilterThrows(sp, heap) ==
  TruthyChars(sp.date) /\
    (ISODate(DateParse(sp.date.val)).throws \/
     \E p \in Elements(heap) : ISODate(DateParse(p.gameTime)).throws)

DateFilter(sp, heap) ==
  IF TruthyChars(sp.date)
    THEN Only({ArrayFilter(heap, [p \in Elements(heap) |-> DateMatches(p, targetDate)]) :
                 targetDate \in {ISODate(DateParse(sp.date.val)).date}})
    ELSE heap

StatFilter(sp, heap) ==
  IF TruthyText(sp.stat)
    THEN ArrayFilter(heap, [p \in Elements(heap) |-> StatMatches(p, sp.stat.val)])
    ELSE heap

TeamFilter(sp, heap) ==
  IF TruthyText(sp.team)
    THEN ArrayFilter(heap, [p \in Elements(heap) |-> TeamMatches(p, sp.team.val)])
    ELSE heap

PlayerFilter(sp, heap) ==
  IF TruthyChars(sp.player)
    THEN ArrayFilter(heap, [p \in Elements(heap) |-> PlayerMatches(p, sp.player.val)])
    ELSE heap

\* The filters applied one after the other to a copy of mockPredictions:
\* each stage is the state [throws, heap] after one more step.  throws: the
\* date filter threw, and the steps after it do not run.
AfterSport(sp, mock) ==
  Only({[throws |-> FALSE, heap |-> SportFilter(sp, h)] : h \in {SpreadCopy(mock)}})

AfterConfidence(sp, mock) ==
  Only({[s EXCEPT !.heap = ConfidenceFilter(sp, s.heap)] : s \in {AfterSport(sp, mock)}})

AfterDate(sp, mock) ==
  Only({IF DateFilterThrows(sp, s.heap) THEN [s EXCEPT !.throws = TRUE]
        ELSE [s EXCEPT !.heap = DateFilter(sp, s.heap)] : s \in {AfterConfidence(sp, mock)}})

AfterStat(sp, mock) ==
  Only({IF s.throws THEN s
        ELSE [s EXCEPT !.heap = StatFilter(sp, s.heap)] : s \in {AfterDate(sp, mock)}})

AfterTeam(sp, mock) ==
  Only({IF s.throws THEN s
        ELSE [s EXCEPT !.heap = TeamFilter(sp, s.heap)] : s \in {AfterStat(sp, mock)}})

Filtered(sp, mock) ==
  Only({IF s.throws THEN s
        ELSE [s EXCEPT !.heap = PlayerFilter(sp, s.heap)] : s \in {AfterTeam(sp, mock)}})

SortBy(sp) == TextOrDefault(sp.sortBy, "confidence")
SortOrder(sp) == TextOrDefault(sp.sortOrder, "desc")

\* filteredPredictions.sort(...) applied to what the filters left.
FilteredSorted(sp, mock) ==
  Only({IF s.throws THEN s
        ELSE [s EXCEPT !.heap = ArraySort(s.heap, ListComparator(SortBy(sp), SortOrder(sp)))] :
          s \in {Filtered(sp, mock)}})

Page(sp) == parseInt(CharsOrDefault(sp.page, <<"1">>))
Limit(sp) == parseInt(CharsOrDefault(sp.limit, <<"1", "0">>))

StartIndex_ZeroBased(page, limit) ==
  IF page.nan \/ limit.nan THEN NaN ELSE Num(page.n * limit.n)
StartIndex(page, limit) ==
  IF page.nan \/ limit.nan THEN NaN ELSE Num((page.n - 1) * limit.n)

EndIndex_Exclusive(page, limit) ==
  IF page.nan \/ limit.nan THEN NaN ELSE Num(page.n * limit.n - 1)
EndIndex(page, limit) ==
  IF page.nan \/ limit.nan THEN NaN ELSE Num(page.n * limit.n)

\* Math.ceil(length / limit); nan stands for a value JSON writes as null
\* (NaN for a NaN limit or 0/0, Infinity for a division by zero).
TotalPages(length, limit) ==
  IF limit.nan \/ limit.n = 0 THEN NaN
  ELSE IF limit.n > 0 THEN Num((length + limit.n - 1) \div limit.n)
  ELSE Num(0 - (length \div (0 - limit.n)))

\* The end of case 'predictions': pagination and the JSON body.
ListResponse(filteredPredictions, page, limit) ==
  [kind |-> "list", status |-> 200,
   predictions |-> ArraySlice(filteredPredictions,
                              StartIndex(page, limit), EndIndex(page, limit)),
   total |-> Len(filteredPredictions),
   page |-> page,
   limit |-> limit,
   totalPages |-> TotalPages(Len(filteredPredictions), limit)]

\* The whole case 'predictions': the response and the mockPredictions it leaves.
ListPredictions(sp, mock) ==
  Only({IF s.throws
          THEN [response |-> [kind |-> "exception", status |-> 500], mock |-> s.heap.mock]
          ELSE [response |-> ListResponse(Deref(s.heap), Page(sp), Limit(sp)),
                mock |-> s.heap.mock] :
          s \in {FilteredSorted(sp, mock)}})

(***************************************************************************)
(* GET, case 'summary'                                                     *)
(***************************************************************************)
CountSport(mock, sport) == Len(SelectSeq(mock, LAMBDA p : p.sport = sport))
CountCategory(mock, category) ==
  Len(SelectSeq(mock, LAMBDA p : p.confidenceCategory = category))

FeaturedThreshold == 80
FeaturedCount == 3

\* mockPredictions.filter(p => p.confidence >= 80).sort(...): the heap after it.
Featured_Unsorted(mock) ==
  ArrayFilter(OnMock(mock), [p \in Elements(OnMock(mock)) |-> p.confidence >= FeaturedThreshold])
Featured(mock) ==
  Only({ArraySort(chosen, FeaturedComparator) :
          chosen \in {ArrayFilter(OnMock(mock),
                                  [p \in Elements(OnMock(mock)) |-> p.confidence >= FeaturedThreshold])}})

Summary(mock) ==
  Only({[response |->
           [kind |-> "summary", status |-> 200,
            totalPredictions |-> Len(mock),
            sportBreakdown |->
              [NBA |-> CountSport(mock, "NBA"),
               NFL |-> CountSport(mock, "NFL"),
               MLB |-> CountSport(mock, "MLB"),
               NHL |-> CountSport(mock, "NHL"),
               Soccer |-> CountSport(mock, "Soccer")],
            confidenceBreakdown |->
              [VeryHigh |-> CountCategory(mock, "Very High"),
               High |-> CountCategory(mock, "High"),
               Moderate |-> CountCategory(mock, "Moderate"),
               Low |-> CountCategory(mock, "Low"),
               VeryLow |-> CountCategory(mock, "Very Low")],
            featuredPredictions |-> ArraySlice(Deref(ordered), Num(0), Num(FeaturedCount))],
         mock |-> ordered.mock] :
          ordered \in {Featured(mock)}})

(***************************************************************************)
(* GET: the endpoint switch                                                *)
(***************************************************************************)
\* Which case of switch (endpoint) runs; a missing endpoint is null.
EndpointCase_MissingIsList(endpoint) ==
  IF ~endpoint.has THEN "predictions"
  ELSE IF endpoint.val \in {"predictions", "performance", "summary"} THEN endpoint.val
  ELSE "default"
EndpointCase(endpoint) ==
  IF endpoint.has /\ endpoint.val \in {"predictions", "performance", "summary"}
    THEN endpoint.val
    ELSE "default"

Handle_SummaryOfFiltered(sp, mock) ==
  CASE EndpointCase(sp.endpoint) = "predictions" -> ListPredictions(sp, mock)
    [] EndpointCase(sp.endpoint) = "performance" ->
         [response |-> [kind |-> "performance", status |-> 200, body |-> mockPerformance],
          mock |-> mock]
    [] EndpointCase(sp.endpoint) = "summary" ->
         [response |-> Summary(Deref(Filtered(sp, mock).heap)).response, mock |-> mock]
    [] OTHER ->
         [response |-> [kind |-> "error", status |-> 400, error |-> "Invalid endpoint"],
          mock |-> mock]
Handle_PerformanceByPeriod(sp, mock) ==
  CASE EndpointCase(sp.endpoint) = "predictions" -> ListPredictions(sp, mock)
    [] EndpointCase(sp.endpoint) = "performance" ->
         [response |->
            [kind |-> "performance", status |-> 200,
             body |-> IF sp.period.has /\ sp.period.val = "30"
                        THEN [mockPerformance EXCEPT !.overall.totalPredictions = 5000]
                        ELSE mockPerformance],
          mock |-> mock]
    [] EndpointCase(sp.endpoint) = "summary" -> Summary(mock)
    [] OTHER ->
         [response |-> [kind |-> "error", status |-> 400, error |-> "Invalid endpoint"],
          mock |-> mock]
Handle(sp, mock) ==
  CASE EndpointCase(sp.endpoint) = "predictions" -> ListPredictions(sp, mock)
    [] EndpointCase(sp.endpoint) = "performance" ->
         [response |-> [kind |-> "performance", status |-> 200, body |-> mockPerformance],
          mock |-> mock]
    [] EndpointCase(sp.endpoint) = "summary" -> Summary(mock)
    [] OTHER ->
         [response |-> [kind |-> "error", status |-> 400, error |-> "Invalid endpoint"],
          mock |-> mock]

(***************************************************************************)
(* Requests                                                                *)
(***************************************************************************)
MaxPage == 2

EndpointParams == {AbsentText, Present("predictions"), Present("performance"),
                   Present("summary"), Present("Predictions"), Present("")}
SportParams == {AbsentText, Present("NBA")}
MinConfidenceParams == {AbsentChars, Present(<<"7", "5">>)}
DateParams == {AbsentChars, Present(<<2025, 3, 22>>), Present(<<"not-a-date">>)}
StatParams == {AbsentText, Present("Points")}
TeamParams == {AbsentText, Present("BOS")}
PlayerParams == {AbsentChars, Present(<<"J", "A">>)}
SortByParams == {AbsentText, Present("confidence"), Present("gameTime"), Present("player"),
                 Present("line"), Present("predictedValue"), Present("popularity")}
SortOrderParams == {AbsentText, Present("asc"), Present("desc"), Present("up")}
PageParams == {AbsentChars, Present(<<"9", "9">>)} \cup {Present(toString(n)) : n \in 1..MaxPage}
LimitParams == {AbsentChars, Present(<<"6">>), Present(<<"4">>)}

ListRequests ==
  [endpoint : {Present("predictions")}, sport : SportParams,
   minConfidence : MinConfidenceParams, date : DateParams, stat : StatParams,
   team : TeamParams, player : PlayerParams, sortBy : SortByParams,
   sortOrder : SortOrderParams, page : PageParams, limit : LimitParams,
   period : {AbsentText}, startDate : {AbsentText}, endDate : {AbsentText}]

\* A request with the endpoint parameter only.  period, startDate and endDate
\* are the parameters usePerformanceData sends; the handler never reads them.
Bare(endpoint) ==
  [endpoint |-> endpoint, sport |-> AbsentText, minConfidence |-> AbsentChars,
   date |-> AbsentChars, stat |-> AbsentText, team |-> AbsentText,
   player |-> AbsentChars, sortBy |-> AbsentText, sortOrder |-> AbsentText,
   page |-> AbsentChars, limit |-> AbsentChars,
   period |-> AbsentText, startDate |-> AbsentText, endDate |-> AbsentText]

OtherRequests == {Bare(e) : e \in EndpointParams \ {Present("predictions")}}

NoRequest == Bare(AbsentText)
NoResponse == [kind |-> "none", status |-> 0]

(***************************************************************************)
(* The state machine: one request in flight at a time                     *)
(***************************************************************************)
\* The records of a later ingestion cycle: some games re-predicted.
NextDataset ==
  <<[P2 EXCEPT !.confidence = 88, !.confidenceCategory = "High"],
    [P6 EXCEPT !.confidence = 81, !.confidenceCategory = "High"],
    [P9 EXCEPT !.confidence = 55, !.confidenceCategory = "Low"],
    [P13 EXCEPT !.confidence = 91, !.confidenceCategory = "Very High"],
    [P14 EXCEPT !.confidence = 84]>>

Snapshots == {ReferenceDataset, NextDataset}

(***************************************************************************)
(* The client: usePredictionsData, FilterPanel, the Predictions page and   *)
(* usePerformanceData.  A number read from a JSON body is                  *)
(* [null |-> BOOLEAN, n |-> value]: JSON.stringify writes NaN as null.     *)
(***************************************************************************)
JsonNull == [null |-> TRUE, n |-> 0]
JsonNumber(x) == IF x.nan THEN JsonNull ELSE [null |-> FALSE, n |-> x.n]

\* await response.json() on a list response.
ResponseJson(body) ==
  [body EXCEPT !.page = JsonNumber(@), !.limit = JsonNumber(@), !.totalPages = JsonNumber(@)]

NoData == [kind |-> "null"]

\* useState initial value of filters, and what resetFilters stores.
DefaultFilters ==
  [sport |-> "", date |-> <<>>, minConfidence |-> 0, stat |-> "", team |-> "",
   player |-> <<>>, sortBy |-> "confidence", sortOrder |-> "desc", page |-> 1, limit |-> 6]

\* if (filters.x) queryParams.append('x', filters.x): '' and 0 are left out.
TextParam(value) == IF value # "" THEN Present(value) ELSE AbsentText
CharsParam(value) == IF value # <<>> THEN Present(value) ELSE AbsentChars
NumberParam(value) == IF value # 0 THEN Present(toString(value)) ELSE AbsentChars

\* The query string fetchPredictionsData builds from filters.
BuildQuery(filters) ==
  [endpoint |-> Present("predictions"),
   sport |-> TextParam(filters.sport),
   date |-> CharsParam(filters.date),
   minConfidence |-> NumberParam(filters.minConfidence),
   stat |-> TextParam(filters.stat),
   team |-> TextParam(filters.team),
   player |-> CharsParam(filters.player),
   sortBy |-> TextParam(filters.sortBy),
   sortOrder |-> TextParam(filters.sortOrder),
   page |-> NumberParam(filters.page),
   limit |-> NumberParam(filters.limit),
   period |-> AbsentText, startDate |-> AbsentText, endDate |-> AbsentText]

\* updateFilters(newFilters): the filters it stores.  newFilters is a record
\* with some of the fields of filters; {...a, ...b} is b @@ a.
updateFilters_KeepPage(filters, newFilters) == newFilters @@ filters
updateFilters(filters, newFilters) ==
  IF "page" \notin DOMAIN newFilters
    THEN [page |-> 1] @@ newFilters @@ filters
    ELSE newFilters @@ filters

resetFilters == DefaultFilters

\* value || fallback on a number of the JSON body (undefined when
\* predictionsData is null): null and 0 give the fallback.
NumberOr_Nullish(value, fallback) == IF value.null THEN fallback ELSE value.n
NumberOr(value, fallback) == IF value.null \/ value.n = 0 THEN fallback ELSE value.n

\* predictionsData?.name
DataNumber(predictionsData, name) ==
  IF predictionsData.kind = "null" THEN JsonNull ELSE predictionsData[name]

\* What usePredictionsData returns besides loading, error and filters.
ExposedPredictions(hook) ==
  IF hook.predictionsData.kind = "null" THEN <<>> ELSE hook.predictionsData.predictions
ExposedTotal(hook) ==
  IF hook.predictionsData.kind = "null" THEN 0 ELSE hook.predictionsData.total
ExposedPage(hook) == NumberOr(DataNumber(hook.predictionsData, "page"), 1)
ExposedLimit(hook) == NumberOr(DataNumber(hook.predictionsData, "limit"), 6)
ExposedTotalPages(hook) == NumberOr(DataNumber(hook.predictionsData, "totalPages"), 1)

\* FilterPanel.handleConfidenceChange: the threshold of each checkbox id.
ConfidenceIds == {"very-high", "high", "moderate", "low", "very-low"}
confidenceLevels ==
  [id \in ConfidenceIds |->
     CASE id = "very-high" -> 90
       [] id = "high" -> 80
       [] id = "moderate" -> 65
       [] id = "low" -> 50
       [] id = "very-low" -> 0]

\* checkedValues.forEach(...) starting from minConfidence.
RECURSIVE LowestChecked(_, _)
LowestChecked(checkedValues, minConfidence) ==
  IF checkedValues = {} THEN minConfidence
  ELSE LET value == CHOOSE v \in checkedValues : TRUE
       IN  LowestChecked(checkedValues \ {value},
                         IF confidenceLevels[value] < minConfidence
                           THEN confidenceLevels[value] ELSE minConfidence)

\* The minConfidence handleConfidenceChange passes to updateFilters.
MinConfidenceOf_NoReset(checkedValues) == LowestChecked(checkedValues, 100)
MinConfidenceOf(checkedValues) ==
  IF checkedValues = {} THEN 0 ELSE LowestChecked(checkedValues, 100)

\* Predictions.handleSortChange: the update for an option of the sort select.
handleSortChange(value) ==
  CASE value = "confidence_high_to_low" -> [sortBy |-> "confidence", sortOrder |-> "desc"]
    [] value = "confidence_low_to_high" -> [sortBy |-> "confidence", sortOrder |-> "asc"]
    [] value = "game_time_earliest" -> [sortBy |-> "gameTime", sortOrder |-> "asc"]
    [] value = "game_time_latest" -> [sortBy |-> "gameTime", sortOrder |-> "desc"]
    [] value = "player_name_az" -> [sortBy |-> "player", sortOrder |-> "asc"]
    [] OTHER -> [sortBy |-> "confidence", sortOrder |-> "desc"]

\* The number on the i-th numbered page button, i from 0.
PageNum_Centred(i, page, totalPages) ==
  IF totalPages <= 5 THEN i + 1 ELSE page - 2 + i
PageNum(i, page, totalPages) ==
  IF totalPages <= 5 THEN i + 1
  ELSE IF page <= 3 THEN i + 1
  ELSE IF page >= totalPages - 2 THEN totalPages - 4 + i
  ELSE page - 2 + i

\* The pagination control: the numbered buttons and whether the ellipsis
\* and the separate last-page button are rendered.
NoButtons == [rendered |-> FALSE, numbered |-> <<>>, last |-> FALSE]
PageButtons(page, totalPages) ==
  [rendered |-> TRUE,
   numbered |-> [i \in 1..Min(5, totalPages) |-> PageNum(i - 1, page, totalPages)],
   last |-> totalPages > 5 /\ page < totalPages - 2]

\* usePerformanceData: customDateRange is null or {start, end}.
NoRange == [null |-> TRUE, start |-> "", end |-> ""]
DateRange(start, end) == [null |-> FALSE, start |-> start, end |-> end]

\* The query string fetchPerformanceData builds.
BuildPerformanceQuery(timePeriod, customDateRange) ==
  [Bare(Present("performance")) EXCEPT
     !.period = TextParam(timePeriod),
     !.startDate = IF customDateRange.null THEN AbsentText ELSE Present(customDateRange.start),
     !.endDate = IF customDateRange.null THEN AbsentText ELSE Present(customDateRange.end)]

\* Both pages mounted: each hook has its initial state and has issued the
\* fetch of its effect.
InitClient ==
  /\ predictionsHook = [loading |-> TRUE, error |-> AbsentText, predictionsData |-> NoData,
                        filters |-> DefaultFilters]
  /\ predictionsFetches = <<BuildQuery(DefaultFilters)>>
  /\ confidenceChecked = {}
  /\ performanceHook = [loading |-> TRUE, error |-> AbsentText, performanceData |-> NoData,
                        timePeriod |-> "7", customDateRange |-> NoRange]
  /\ performanceFetches = <<BuildPerformanceQuery("7", NoRange)>>
  /\ pageButtons = NoButtons

Init ==
  /\ mockPredictions = ReferenceDataset
  /\ pc = "idle"
  /\ request = NoRequest
  /\ response = NoResponse
  /\ InitClient

\* A client sends a request: fetch('/api/predictions?...').
SendRequest ==
  /\ pc = "idle"
  /\ \E sp \in ListRequests \cup OtherRequests : request' = sp
  /\ pc' = "pending"
  /\ UNCHANGED <<mockPredictions, response, clientVars>>

\* The route handler runs to completion on the request.
GET_Torn ==
  /\ pc = "pending"
  /\ \E r \in {Handle(request, mockPredictions)}, s \in Snapshots :
       /\ response' =
            IF r.response.kind = "summary"
              THEN [r.response EXCEPT !.totalPredictions = Len(s)]
            ELSE IF r.response.kind = "list"
              THEN [r.response EXCEPT !.total = Len(Deref(Filtered(request, s).heap))]
            ELSE r.response
       /\ mockPredictions' = r.mock
  /\ pc' = "responded"
  /\ UNCHANGED <<request, clientVars>>
GET ==
  /\ pc = "pending"
  /\ \E r \in {Handle(request, mockPredictions)} :
       /\ response' = r.response
       /\ mockPredictions' = r.mock
  /\ pc' = "responded"
  /\ UNCHANGED <<request, clientVars>>

\* The client takes the response; the handler keeps nothing of the request.
ReceiveResponse ==
  /\ pc = "responded"
  /\ pc' = "idle"
  /\ request' = NoRequest
  /\ response' = NoResponse
  /\ UNCHANGED <<mockPredictions, clientVars>>

Next == SendRequest \/ GET \/ ReceiveResponse

Spec == Init /\ [][Next]_vars

(***************************************************************************)
(* A second client population: every filter parameter missing, empty or    *)
(* set, sent to the list and to the summary endpoint, with the sort and    *)
(* page parameters either all missing or those of the dashboard query;     *)
(* and the performance requests of usePerformanceData.                     *)
(***************************************************************************)
SortPageChoices ==
  {[sortBy |-> AbsentText, sortOrder |-> AbsentText, page |-> AbsentChars, limit |-> AbsentChars],
   [sortBy |-> Present("confidence"), sortOrder |-> Present("desc"),
    page |-> Present(<<"1">>), limit |-> Present(<<"6">>)]}

FilterRequests ==
  {[f EXCEPT !.sortBy = c.sortBy, !.sortOrder = c.sortOrder, !.page = c.page, !.limit = c.limit] :
     f \in [endpoint : {Present("predictions"), Present("summary")},
            sport : {AbsentText, Present(""), Present("NBA")},
            minConfidence : {AbsentChars, Present(<<>>), Present(<<"8", "0">>)},
            date : {AbsentChars, Present(<<>>), Present(<<2025, 3, 21>>)},
            stat : {AbsentText, Present(""), Present("Points")},
            team : {AbsentText, Present(""), Present("BOS")},
            player : {AbsentChars, Present(<<>>), Present(<<"S", "O", "N">>)},
            sortBy : {AbsentText}, sortOrder : {AbsentText},
            page : {AbsentChars}, limit : {AbsentChars},
            period : {AbsentText}, startDate : {AbsentText}, endDate : {AbsentText}],
     c \in SortPageChoices}

\* usePerformanceData: period always, startDate and endDate with a custom range.
PerformanceRequests ==
  {[Bare(Present("performance")) EXCEPT !.period = period, !.startDate = range[1], !.endDate = range[2]] :
     period \in {AbsentText, Present("7"), Present("30"), Present("custom")},
     range \in {<<AbsentText, AbsentText>>, <<Present("2025-03-01"), Present("2025-03-21")>>,
                <<Present("2025-03-21"), Present("2025-03-01")>>}}

SendFilterRequest ==
  /\ pc = "idle"
  /\ \E sp \in FilterRequests \cup PerformanceRequests : request' = sp
  /\ pc' = "pending"
  /\ UNCHANGED <<mockPredictions, response, clientVars>>

NextFilters == SendFilterRequest \/ GET \/ ReceiveResponse

SpecFilters == Init /\ [][NextFilters]_vars

(***************************************************************************)
(* Snapshot replacement.  The route holds its data in the module-level     *)
(* mockPredictions; the ingestion process that publishes a new snapshot is *)
(* not part of the web application and is taken from the design            *)
(* description: a new snapshot replaces the old one in one step, at any    *)
(* moment between two steps of the route.                                  *)
(***************************************************************************)
ReplaceSnapshot ==
  /\ \E s \in Snapshots \ {mockPredictions} : mockPredictions' = s
  /\ UNCHANGED <<pc, request, response, clientVars>>

NextReplace == SendFilterRequest \/ GET \/ ReceiveResponse \/ ReplaceSnapshot

SpecReplace == Init /\ [][NextReplace]_vars

(***************************************************************************)
(* The Predictions page: FilterPanel and the page controls call            *)
(* updateFilters and resetFilters; every setFilters stores a new object,   *)
(* so the effect of usePredictionsData runs and issues a fetch; the        *)
(* fetches return in any order.                                            *)
(***************************************************************************)
MaxInFlight == 2

\* setFilters(next) and the effect that follows it: setLoading(true) and the
\* fetch of the query built from the new filters.
SetFilters(next) ==
  /\ Len(predictionsFetches) < MaxInFlight
  /\ predictionsHook' = [predictionsHook EXCEPT !.filters = next, !.loading = TRUE]
  /\ predictionsFetches' = Append(predictionsFetches, BuildQuery(next))

\* The page returns its error view, without FilterPanel and the controls,
\* once error is set.
ControlsRendered == ~predictionsHook.error.has

\* The pagination block: not while loading, not on an empty list, and only
\* with more than one page.
PaginationRendered ==
  /\ ControlsRendered
  /\ ~predictionsHook.loading
  /\ ExposedPredictions(predictionsHook) # <<>>
  /\ ExposedTotalPages(predictionsHook) > 1

\* The options of the stat select and of the sort select that are exercised.
StatOptions == {"", "Steals"}
SortOptions == {"confidence_high_to_low", "player_name_az"}

handleStatTypeChange ==
  /\ ControlsRendered
  /\ \E value \in StatOptions :
       SetFilters(updateFilters(predictionsHook.filters, [stat |-> value]))
  /\ UNCHANGED <<serverVars, confidenceChecked, performanceVars, pageButtons>>

\* A confidence checkbox is toggled and handleConfidenceChange reads the
\* checked boxes.
handleConfidenceChange ==
  /\ ControlsRendered
  /\ \E id \in ConfidenceIds :
       \E checkedValues \in {IF id \in confidenceChecked THEN confidenceChecked \ {id}
                             ELSE confidenceChecked \cup {id}} :
          /\ confidenceChecked' = checkedValues
          /\ SetFilters(updateFilters(predictionsHook.filters,
                                      [minConfidence |-> MinConfidenceOf(checkedValues)]))
  /\ UNCHANGED <<serverVars, performanceVars, pageButtons>>

SortChange ==
  /\ ControlsRendered
  /\ \E value \in SortOptions :
       SetFilters(updateFilters(predictionsHook.filters, handleSortChange(value)))
  /\ UNCHANGED <<serverVars, confidenceChecked, performanceVars, pageButtons>>

\* The Apply Filters button: updateFilters({}).
ApplyFilters ==
  /\ ControlsRendered
  /\ SetFilters(updateFilters(predictionsHook.filters, <<>>))
  /\ UNCHANGED <<serverVars, confidenceChecked, performanceVars, pageButtons>>

\* The Reset button; the checkboxes are not controlled by filters and stay.
ResetFilters ==
  /\ ControlsRendered
  /\ SetFilters(resetFilters)
  /\ UNCHANGED <<serverVars, confidenceChecked, performanceVars, pageButtons>>

\* The pages the enabled buttons of the pagination control lead to:
\* Previous, Next, the numbered buttons and the last-page button.
PageTargets(page, totalPages) ==
  (IF page # 1 THEN {page - 1} ELSE {})
    \cup (IF page # totalPages THEN {page + 1} ELSE {})
    \cup {PageNum(i, page, totalPages) : i \in 0..(Min(5, totalPages) - 1)}
    \cup (IF PageButtons(page, totalPages).last THEN {totalPages} ELSE {})

\* handlePageChange(newPage) from a button of the pagination control.
PageChange(newPage) ==
  /\ PaginationRendered
  /\ newPage \in PageTargets(ExposedPage(predictionsHook), ExposedTotalPages(predictionsHook))
  /\ SetFilters(updateFilters(predictionsHook.filters, [page |-> newPage]))
  /\ UNCHANGED <<serverVars, confidenceChecked, performanceVars, pageButtons>>

handlePageChange == \E newPage \in 1..(Len(ReferenceDataset) + 1) : PageChange(newPage)

\* fetch of the i-th query in flight returns with the route's response:
\* a response that is not ok throws into the catch block, an ok one is
\* parsed and stored; finally setLoading(false).
FetchReturns(i) ==
  /\ i \in 1..Len(predictionsFetches)
  /\ \E r \in {Handle(predictionsFetches[i], mockPredictions).response} :
       predictionsHook' =
         IF r.status # 200
           THEN [predictionsHook EXCEPT !.error = Present("Failed to fetch predictions data"),
                                        !.loading = FALSE]
           ELSE [predictionsHook EXCEPT !.predictionsData = ResponseJson(r), !.loading = FALSE]
  /\ predictionsFetches' =
       [k \in 1..(Len(predictionsFetches) - 1) |->
          IF k < i THEN predictionsFetches[k] ELSE predictionsFetches[k + 1]]
  /\ UNCHANGED <<serverVars, confidenceChecked, performanceVars, pageButtons>>

\* fetch of the i-th query rejects (the network fails): catch, finally.
FetchRejects(i) ==
  /\ i \in 1..Len(predictionsFetches)
  /\ predictionsHook' = [predictionsHook EXCEPT !.error = Present("Failed to fetch"),
                                                !.loading = FALSE]
  /\ predictionsFetches' =
       [k \in 1..(Len(predictionsFetches) - 1) |->
          IF k < i THEN predictionsFetches[k] ELSE predictionsFetches[k + 1]]
  /\ UNCHANGED <<serverVars, confidenceChecked, performanceVars, pageButtons>>

FetchFulfilled == \E i \in 1..MaxInFlight + 1 : FetchReturns(i)
FetchRejected == \E i \in 1..MaxInFlight + 1 : FetchRejects(i)

NextClient ==
  \/ handleStatTypeChange
  \/ SortChange
  \/ ApplyFilters
  \/ ResetFilters
  \/ handlePageChange
  \/ FetchFulfilled
  \/ FetchRejected

SpecClient == Init /\ [][NextClient]_vars

\* FilterPanel alone: the confidence checkboxes and the Reset button.
NextPanel ==
  \/ handleConfidenceChange
  \/ ResetFilters
  \/ FetchFulfilled
  \/ FetchRejected

SpecPanel == Init /\ [][NextPanel]_vars

(***************************************************************************)
(* The pagination control of the Predictions page, rendered from the page  *)
(* and totalPages the hook exposes, for list responses of a route that     *)
(* serves up to MaxTotalPages pages.                                       *)
(***************************************************************************)
MaxTotalPages == 10

\* The body of a list response for page `page` of `totalPages` full pages.
PageData(page, totalPages) ==
  [kind |-> "list", status |-> 200,
   predictions |-> SubSeq(ReferenceDataset, 1, DefaultFilters.limit),
   total |-> totalPages * DefaultFilters.limit,
   page |-> JsonNumber(Num(page)),
   limit |-> JsonNumber(Num(DefaultFilters.limit)),
   totalPages |-> JsonNumber(Num(totalPages))]

InitPagination ==
  /\ mockPredictions = ReferenceDataset
  /\ pc = "idle"
  /\ request = NoRequest
  /\ response = NoResponse
  /\ \E totalPages \in 1..MaxTotalPages : \E page \in 1..totalPages :
       predictionsHook = [loading |-> FALSE, error |-> AbsentText,
                          predictionsData |-> PageData(page, totalPages),
                          filters |-> [DefaultFilters EXCEPT !.page = page]]
  /\ predictionsFetches = <<>>
  /\ confidenceChecked = {}
  /\ performanceHook = [loading |-> TRUE, error |-> AbsentText, performanceData |-> NoData,
                        timePeriod |-> "7", customDateRange |-> NoRange]
  /\ performanceFetches = <<BuildPerformanceQuery("7", NoRange)>>
  /\ pageButtons = NoButtons

\* The page renders its pagination block.
RenderPagination ==
  /\ PaginationRendered
  /\ pageButtons' = PageButtons(ExposedPage(predictionsHook), ExposedTotalPages(predictionsHook))
  /\ UNCHANGED <<serverVars, predictionsVars, performanceVars>>

NextPagination == RenderPagination

SpecPagination == InitPagination /\ [][NextPagination]_vars

(***************************************************************************)
(* usePerformanceData: updateTimePeriod and updateCustomDateRange, the     *)
(* effect on [timePeriod, customDateRange] and its fetches.                *)
(***************************************************************************)
TimePeriods == {"7", "30", "90", "custom"}
DateInputs == {"", "2025-03-01"}

\* The effect runs when timePeriod or customDateRange has changed (a new
\* range object always counts as changed): setLoading(true) and the fetch.
PerformanceEffect(next, changed) ==
  /\ Len(performanceFetches) < MaxInFlight
  /\ performanceHook' = IF changed THEN [next EXCEPT !.loading = TRUE] ELSE next
  /\ performanceFetches' =
       IF changed
         THEN Append(performanceFetches,
                     BuildPerformanceQuery(next.timePeriod, next.customDateRange))
         ELSE performanceFetches

updateTimePeriod_KeepRange ==
  /\ \E period \in TimePeriods :
       PerformanceEffect([performanceHook EXCEPT !.timePeriod = period],
                         period # performanceHook.timePeriod)
  /\ UNCHANGED <<serverVars, predictionsVars, pageButtons>>
updateTimePeriod ==
  /\ \E period \in TimePeriods :
       PerformanceEffect([performanceHook EXCEPT !.timePeriod = period,
                                                 !.customDateRange = NoRange],
                         period # performanceHook.timePeriod
                           \/ ~performanceHook.customDateRange.null)
  /\ UNCHANGED <<serverVars, predictionsVars, pageButtons>>

updateCustomDateRange ==
  /\ \E start \in DateInputs, end \in DateInputs :
       PerformanceEffect([performanceHook EXCEPT !.customDateRange = DateRange(start, end),
                                                 !.timePeriod = "custom"],
                         TRUE)
  /\ UNCHANGED <<serverVars, predictionsVars, pageButtons>>

PerformanceFetchReturns(i) ==
  /\ i \in 1..Len(performanceFetches)
  /\ \E r \in {Handle(performanceFetches[i], mockPredictions).response} :
       performanceHook' =
         IF r.status # 200
           THEN [performanceHook EXCEPT !.error = Present("Failed to fetch performance data"),
                                        !.loading = FALSE]
           ELSE [performanceHook EXCEPT !.performanceData = r.body, !.loading = FALSE]
  /\ performanceFetches' =
       [k \in 1..(Len(performanceFetches) - 1) |->
          IF k < i THEN performanceFetches[k] ELSE performanceFetches[k + 1]]
  /\ UNCHANGED <<serverVars, predictionsVars, pageButtons>>

PerformanceFetchRejects(i) ==
  /\ i \in 1..Len(performanceFetches)
  /\ performanceHook' = [performanceHook EXCEPT !.error = Present("Failed to fetch"),
                                                !.loading = FALSE]
  /\ performanceFetches' =
       [k \in 1..(Len(performanceFetches) - 1) |->
          IF k < i THEN performanceFetches[k] ELSE performanceFetches[k + 1]]
  /\ UNCHANGED <<serverVars, predictionsVars, pageButtons>>

PerformanceFetchFulfilled == \E i \in 1..MaxInFlight + 1 : PerformanceFetchReturns(i)
PerformanceFetchRejected == \E i \in 1..MaxInFlight + 1 : PerformanceFetchRejects(i)

NextPerformance ==
  \/ updateTimePeriod
  \/ updateCustomDateRange
  \/ PerformanceFetchFulfilled
  \/ PerformanceFetchRejected

SpecPerformance == Init /\ [][NextPerformance]_vars

(***************************************************************************)
(* Properties                                                              *)
(***************************************************************************)
Responded == pc = "responded"
IsList == pc = "responded" /\ response.kind = "list"

\* Position of a record in the snapshot (ids are unique).
SnapshotIndex(p) == CHOOSE i \in 1..Len(mockPredictions) : mockPredictions[i].id = p.id

\* What the filter steps leave of the snapshot for the request in flight, and
\* the same after the sort.
FilteredSeq == Deref(Filtered(request, mockPredictions).heap)
SortedSeq == Deref(FilteredSorted(request, mockPredictions).heap)

Range(s) == {s[i] : i \in 1..Len(s)}

RECURSIVE Concat(_, _)
Concat(pages, k) == IF k = 0 THEN <<>> ELSE Concat(pages, k - 1) \o pages[k]

\* ceil(a / b) for b >= 1, as the least n with n * b >= a.
CeilOf(a, b) == CHOOSE n \in 0..a : n * b >= a /\ (n = 0 \/ (n - 1) * b < a)

\* ---- C1 ---------------------------------------------------------------
\* The predicates of the list filters, stated on a record of the snapshot:
\* sport equal; the UTC calendar date of gameTime (the date fields of its
\* UTC text) equal to the filter date; confidence at least the number the
\* minConfidence text is the decimal writing of (bounds); stat equal; team equal to
\* the record's team or opponent; player contained in the record's player
\* name when both are lower-cased.
C1_Satisfies(p, sp, bounds) ==
  /\ TruthyText(sp.sport) => p.sport = sp.sport.val
  /\ TruthyChars(sp.date) => <<p.gameTime[1], p.gameTime[2], p.gameTime[3]>> = sp.date.val
  /\ TruthyChars(sp.minConfidence) => \E n \in bounds : p.confidence >= n
  /\ TruthyText(sp.stat) => p.stat = sp.stat.val
  /\ TruthyText(sp.team) => (p.team = sp.team.val \/ p.opponent = sp.team.val)
  /\ TruthyChars(sp.player) =>
       \E i \in 1..(Len(p.player) - Len(sp.player.val) + 1) :
          toLowerCase(SubSeq(p.player, i, i + Len(sp.player.val) - 1)) = toLowerCase(sp.player.val)

\* bounds: the numbers 0..100 whose decimal writing is the minConfidence text.
C1_Matching ==
  LET bounds == {n \in 0..100 : toString(n) = request.minConfidence.val}
  IN  {i \in 1..Len(mockPredictions) : C1_Satisfies(mockPredictions[i], request, bounds)}

\* C1: in every list response the records counted in total are exactly the
\* snapshot records that satisfy all active predicates, and every record
\* returned is one of them.
C1_FilterExact ==
  IsList =>
    /\ Range(FilteredSeq) = {mockPredictions[i] : i \in C1_Matching}
    /\ response.total = Cardinality(C1_Matching)
    /\ Range(response.predictions) \subseteq {mockPredictions[i] : i \in C1_Matching}

\* C1 witness: team and player filters active together, two records match,
\* one of them through its opponent field only.
C1_Witness ==
  /\ IsList
  /\ TruthyText(request.team) /\ TruthyChars(request.player)
  /\ response.total = 2
  /\ \E p \in Range(response.predictions) :
       p.opponent = request.team.val /\ p.team # request.team.val

\* ---- C2 ---------------------------------------------------------------
\* The request in flight with sortBy, sortOrder, page and limit left out.
C2_Plain ==
  [request EXCEPT !.sortBy = AbsentText, !.sortOrder = AbsentText,
                  !.page = AbsentChars, !.limit = AbsentChars]

\* C2: for page >= 1 and limit >= 1, predictions is the contiguous slice
\* [(page-1)*limit, page*limit) of the filtered-then-sorted sequence, total is
\* the length of the filtered sequence, and total is the one the same filter
\* gets under any other sortBy, sortOrder, page and limit.
C2_FilterSortSlice ==
  (IsList /\ ~response.page.nan /\ ~response.limit.nan
          /\ response.page.n >= 1 /\ response.limit.n >= 1) =>
    LET first == (response.page.n - 1) * response.limit.n + 1
        last == Min(response.page.n * response.limit.n, Len(SortedSeq))
    IN  /\ response.predictions = [k \in 1..Max(last - first + 1, 0) |-> SortedSeq[first + k - 1]]
        /\ response.total = Len(FilteredSeq)
        /\ response.total = Handle(C2_Plain, mockPredictions).response.total

\* C2 witness: the second page of a sorted result that spills over it.
C2_Witness ==
  /\ IsList
  /\ response.page = Num(2) /\ response.limit = Num(4)
  /\ TruthyText(request.sortBy) /\ request.sortBy.val = "gameTime"
  /\ response.total = 14 /\ Len(response.predictions) = 4

\* ---- C3 ---------------------------------------------------------------
\* C3: totalPages is ceil(total / limit) when total > 0 and 1 when total = 0.
C3_TotalPagesFloor ==
  (IsList /\ ~response.limit.nan /\ response.limit.n >= 1) =>
    /\ ~response.totalPages.nan
    /\ response.totalPages.n =
         IF response.total > 0 THEN CeilOf(response.total, response.limit.n) ELSE 1

\* ---- C4 ---------------------------------------------------------------
\* The value a record is sorted on (confidence for an unrecognized sortBy).
SortKey(p, sortBy) ==
  CASE sortBy = "gameTime" -> p.gameTime
    [] sortBy = "player" -> p.player
    [] sortBy = "line" -> p.line
    [] sortBy = "predictedValue" -> p.predictedValue
    [] OTHER -> p.confidence

KeepsSnapshotOrderOfTies(s, sortBy) ==
  \A i \in 1..Len(s) : \A j \in (i + 1)..Len(s) :
     SortKey(s[i], sortBy) = SortKey(s[j], sortBy) =>
       SnapshotIndex(s[i]) < SnapshotIndex(s[j])

\* C4: for every sortBy and both directions, records with equal sort keys
\* keep their snapshot order, in the sorted sequence and in the page returned.
C4_SortStable ==
  IsList =>
    /\ KeepsSnapshotOrderOfTies(SortedSeq, SortBy(request))
    /\ KeepsSnapshotOrderOfTies(response.predictions, SortBy(request))

\* C4 witness: a descending sort returns two records with the same key.
C4_Witness ==
  /\ IsList
  /\ SortOrder(request) = "desc"
  /\ \E i \in 1..Len(response.predictions) : \E j \in (i + 1)..Len(response.predictions) :
       SortKey(response.predictions[i], SortBy(request)) =
         SortKey(response.predictions[j], SortBy(request))

\* ---- C5 ---------------------------------------------------------------
\* a's key is at most b's: numbers by value, gameTime by instant (the UTC
\* fields compared from the year down), player by localeCompare.
RECURSIVE TupleLeq(_, _, _)
TupleLeq(a, b, i) ==
  IF i > Len(a) THEN TRUE
  ELSE IF a[i] # b[i] THEN a[i] < b[i]
  ELSE TupleLeq(a, b, i + 1)

KeyLeq(a, b, sortBy) ==
  CASE sortBy = "gameTime" -> TupleLeq(a.gameTime, b.gameTime, 1)
    [] sortBy = "player" -> localeCompare(a.player, b.player) <= 0
    [] sortBy = "line" -> a.line <= b.line
    [] sortBy = "predictedValue" -> a.predictedValue <= b.predictedValue
    [] OTHER -> a.confidence <= b.confidence

Ordered(s, sortBy, sortOrder) ==
  \A i \in 1..(Len(s) - 1) :
     IF sortOrder = "asc" THEN KeyLeq(s[i], s[i + 1], sortBy)
     ELSE KeyLeq(s[i + 1], s[i], sortBy)

RecognizedSortBy == {"confidence", "gameTime", "player", "line", "predictedValue"}

\* C5: for a recognized sortBy and sortOrder asc or desc (the defaults
\* included), the sorted sequence has exactly the records of the filtered
\* one, each once, and every adjacent pair is in the requested order.
C5_SortedPermutation ==
  (IsList /\ SortBy(request) \in RecognizedSortBy /\ SortOrder(request) \in {"asc", "desc"}) =>
    /\ Len(SortedSeq) = Len(FilteredSeq)
    /\ Range(SortedSeq) = Range(FilteredSeq)
    /\ Cardinality(Range(SortedSeq)) = Len(SortedSeq)
    /\ Ordered(SortedSeq, SortBy(request), SortOrder(request))
    /\ Ordered(response.predictions, SortBy(request), SortOrder(request))

\* C5 witness: an ascending sort by line that had to move records.
C5_Witness ==
  /\ IsList
  /\ SortBy(request) = "line" /\ SortOrder(request) = "asc"
  /\ Len(response.predictions) >= 4
  /\ \E i \in 1..(Len(response.predictions) - 1) :
       SnapshotIndex(response.predictions[i]) > SnapshotIndex(response.predictions[i + 1])

\* ---- C6 ---------------------------------------------------------------
\* The predictions of page k for the filter, sort and limit in flight.
PageOf(k) ==
  Handle([request EXCEPT !.page = Present(toString(k))], mockPredictions).response.predictions

\* C6: with limit >= 1, the pages 1..totalPages laid end to end are the
\* filtered-and-sorted sequence.
C6_PagesPartition ==
  (IsList /\ ~response.limit.nan /\ response.limit.n >= 1) =>
    Concat([k \in 1..response.totalPages.n |-> PageOf(k)], response.totalPages.n) = SortedSeq

\* C6 witness: a result of four pages, the last one partly filled.
C6_Witness ==
  /\ IsList
  /\ response.total = 14 /\ response.limit = Num(4) /\ response.totalPages = Num(4)

\* ---- C7 ---------------------------------------------------------------
\* C7: a page beyond the last one gets a normal list response with no
\* predictions and the total and totalPages of page 1.
C7_PageBeyondRange ==
  (Responded /\ EndpointCase(request.endpoint) = "predictions" /\ response.kind # "exception"
     /\ ~Page(request).nan /\ ~Limit(request).nan /\ Limit(request).n >= 1
     /\ Page(request).n > CeilOf(Len(FilteredSeq), Limit(request).n)) =>
    LET first == Handle([request EXCEPT !.page = Present(<<"1">>)], mockPredictions).response
    IN  /\ response.kind = "list" /\ response.status = 200
        /\ response.predictions = <<>>
        /\ response.total = first.total
        /\ response.totalPages = first.totalPages

\* C7 witness: page 99 with limit 6 over the six NBA records.
C7_Witness ==
  /\ IsList
  /\ response.page = Num(99) /\ response.limit = Num(6)
  /\ response.total = 6 /\ response.totalPages = Num(1)
  /\ response.predictions = <<>>

\* ---- C8 ---------------------------------------------------------------
UnrecognizedSortBy == TruthyText(request.sortBy) /\ request.sortBy.val \notin RecognizedSortBy

\* C8 as claimed: with an unrecognized sortBy the result is the one of
\* sortBy=confidence, sortOrder=desc, whatever sortOrder came with it.
C8_FallbackIsConfidenceDesc ==
  (IsList /\ UnrecognizedSortBy) =>
    response =
      Handle([request EXCEPT !.sortBy = Present("confidence"), !.sortOrder = Present("desc")],
             mockPredictions).response

\* C8 amended: with an unrecognized sortBy the request does not fail and the
\* result is the one of sortBy=confidence with the sortOrder that was
\* supplied: ascending for 'asc', descending for any other or no sortOrder.
C8_FallbackIsConfidence ==
  (Responded /\ EndpointCase(request.endpoint) = "predictions" /\ UnrecognizedSortBy) =>
    /\ response = Handle([request EXCEPT !.sortBy = Present("confidence")], mockPredictions).response
    /\ response.kind = "list" =>
         Ordered(response.predictions, "confidence", IF SortOrder(request) = "asc" THEN "asc" ELSE "desc")

\* C8 witness: an unrecognized sortBy with sortOrder=asc whose answer starts
\* with a record of lower confidence than the one it ends with.
C8_Witness ==
  /\ IsList /\ UnrecognizedSortBy
  /\ SortOrder(request) = "asc"
  /\ Len(response.predictions) >= 2
  /\ response.predictions[1].confidence
       < response.predictions[Len(response.predictions)].confidence

\* ---- C9 ---------------------------------------------------------------
\* C9: a missing endpoint, or one that is not 'predictions', 'performance' or
\* 'summary', is answered with an error field and status 400, not with a
\* payload or an exception.
C9_InvalidEndpoint ==
  (Responded /\ ~(request.endpoint.has /\
                  request.endpoint.val \in {"predictions", "performance", "summary"})) =>
    /\ response.kind = "error"
    /\ response.status = 400
    /\ response.error = "Invalid endpoint"

\* C9 witness: a request without endpoint parameter has been answered.
C9_Witness ==
  /\ Responded
  /\ ~request.endpoint.has
  /\ response.kind = "error"

\* ---- C10 --------------------------------------------------------------
\* C10: whatever requests have been served, the snapshot holds the same
\* records with the same field values in the same order.
C10_SnapshotUntouched == mockPredictions = ReferenceDataset

\* C10 witness: a list request without any filter was served and its sort
\* put the records in another order than the snapshot's.
C10_Witness ==
  /\ IsList
  /\ response.total = Len(mockPredictions)
  /\ \E i \in 1..(Len(response.predictions) - 1) :
       SnapshotIndex(response.predictions[i]) > SnapshotIndex(response.predictions[i + 1])

IsSummary == pc = "responded" /\ response.kind = "summary"

\* The parameters a request carries with a non-empty value.
C13_SentText(param) == IF param.has /\ param.val = "" THEN AbsentText ELSE param
C13_SentChars(param) == IF param.has /\ param.val = <<>> THEN AbsentChars ELSE param
C13_Sent(sp) ==
  [sp EXCEPT !.sport = C13_SentText(sp.sport), !.minConfidence = C13_SentChars(sp.minConfidence),
             !.date = C13_SentChars(sp.date), !.stat = C13_SentText(sp.stat),
             !.team = C13_SentText(sp.team), !.player = C13_SentChars(sp.player)]

\* ---- C11 --------------------------------------------------------------
\* C11: whatever predicates are active, the records the filter steps keep
\* stand in the order they have in the snapshot: their snapshot positions
\* increase strictly along the filtered array.
C11_FilterKeepsOrder ==
  IsList =>
    \A i \in 1..Len(FilteredSeq) : \A j \in (i + 1)..Len(FilteredSeq) :
       SnapshotIndex(FilteredSeq[i]) < SnapshotIndex(FilteredSeq[j])

\* C11 witness: two predicates active, several records kept and some dropped
\* between them (records 1 and 6 of NBA Points, with 2..5 dropped).
C11_Witness ==
  /\ IsList
  /\ request.sport = Present("NBA") /\ request.stat = Present("Points")
  /\ FilteredSeq = <<P1, P6>>

\* ---- C12 --------------------------------------------------------------
\* C12: filtering what the filter steps kept, with the same parameters,
\* keeps all of it.
C12_FilterIdempotent ==
  IsList => Deref(Filtered(request, FilteredSeq).heap) = FilteredSeq

\* C12 witness: filters that keep some records and drop others.
C12_Witness ==
  /\ IsList
  /\ request.minConfidence = Present(<<"8", "0">>) /\ request.sport = Present("NBA")
  /\ Len(FilteredSeq) > 0 /\ Len(FilteredSeq) < Len(mockPredictions)
  /\ Deref(Filtered(request, FilteredSeq).heap) = FilteredSeq

\* ---- C13 --------------------------------------------------------------
\* C13: a filter parameter that is missing or the empty string excludes
\* nothing: the filter steps keep exactly the snapshot records that satisfy
\* the predicates of the parameters sent with a non-empty value, in snapshot
\* order, and with none of the six sent, total is the size of the snapshot.
C13_UnsetFilterPassesAll ==
  IsList =>
    LET sent == C13_Sent(request)
        bounds == {n \in 0..100 : toString(n) = sent.minConfidence.val}
    IN  /\ FilteredSeq = SelectSeq(mockPredictions, LAMBDA p : C1_Satisfies(p, sent, bounds))
        /\ response.total = Len(SelectSeq(mockPredictions, LAMBDA p : C1_Satisfies(p, sent, bounds)))
        /\ (\A f \in {"sport", "minConfidence", "date", "stat", "team", "player"} : ~sent[f].has)
             => response.total = Len(mockPredictions)

\* C13 witness: all six filter parameters present and empty, and every
\* record of the snapshot counted.
C13_Witness ==
  /\ IsList
  /\ request.sport = Present("") /\ request.stat = Present("") /\ request.team = Present("")
  /\ request.minConfidence = Present(<<>>) /\ request.date = Present(<<>>)
  /\ request.player = Present(<<>>)
  /\ response.total = Len(mockPredictions)

\* ---- C14 --------------------------------------------------------------
\* Record a stands before record b in the featured ordering: higher
\* confidence, or the same confidence and earlier in the snapshot.
C14_Before(a, b) ==
  \/ a.confidence > b.confidence
  \/ a.confidence = b.confidence /\ SnapshotIndex(a) < SnapshotIndex(b)

\* C14: featuredPredictions holds only snapshot records of confidence 80 or
\* more, at most 3 of them, ordered by descending confidence with ties in
\* snapshot order, and they are the first 3 of all such records in that
\* ordering; on the reference dataset they are records 2, 3 and 12.
C14_FeaturedTopThree ==
  IsSummary =>
    LET featured == response.featuredPredictions
        candidates == {p \in Range(mockPredictions) : p.confidence >= 80}
    IN  /\ Range(featured) \subseteq candidates
        /\ Len(featured) = Min(3, Cardinality(candidates))
        /\ \A i \in 1..Len(featured) : \A j \in (i + 1)..Len(featured) :
              C14_Before(featured[i], featured[j])
        /\ \A p \in candidates \ Range(featured) :
              \A i \in 1..Len(featured) : C14_Before(featured[i], p)
        /\ mockPredictions = ReferenceDataset => featured = <<P2, P3, P12>>

\* C14 witness: a summary over a snapshot with more than 3 records of
\* confidence 80 or more, two of them tied within the first 3.
C14_Witness ==
  /\ IsSummary
  /\ Cardinality({p \in Range(mockPredictions) : p.confidence >= 80}) > 3
  /\ Len(response.featuredPredictions) = 3
  /\ response.featuredPredictions[2].confidence = response.featuredPredictions[3].confidence

\* ---- C15 --------------------------------------------------------------
\* The category each key of confidenceBreakdown counts.
C15_Category ==
  [VeryHigh |-> "Very High", High |-> "High", Moderate |-> "Moderate", Low |-> "Low",
   VeryLow |-> "Very Low"]

RECURSIVE C15_Sum(_, _)
C15_Sum(counts, keys) ==
  IF keys = {} THEN 0
  ELSE LET k == CHOOSE x \in keys : TRUE IN counts[k] + C15_Sum(counts, keys \ {k})

\* C15: whatever filter, sort and page parameters come with a summary
\* request, totalPredictions is the size of the snapshot, each entry of
\* sportBreakdown and of confidenceBreakdown counts the snapshot records of
\* that sport or category, and each breakdown adds up to totalPredictions.
C15_SummaryOverSnapshot ==
  IsSummary =>
    /\ response.totalPredictions = Len(mockPredictions)
    /\ DOMAIN response.sportBreakdown = {"NBA", "NFL", "MLB", "NHL", "Soccer"}
    /\ \A s \in DOMAIN response.sportBreakdown :
          response.sportBreakdown[s] =
            Cardinality({i \in 1..Len(mockPredictions) : mockPredictions[i].sport = s})
    /\ DOMAIN response.confidenceBreakdown = DOMAIN C15_Category
    /\ \A c \in DOMAIN response.confidenceBreakdown :
          response.confidenceBreakdown[c] =
            Cardinality({i \in 1..Len(mockPredictions) :
                           mockPredictions[i].confidenceCategory = C15_Category[c]})
    /\ C15_Sum(response.sportBreakdown, DOMAIN response.sportBreakdown) = response.totalPredictions
    /\ C15_Sum(response.confidenceBreakdown, DOMAIN response.confidenceBreakdown)
         = response.totalPredictions

\* C15 witness: a summary request that carries filters no record satisfies
\* together, and sort and page parameters, answered with all 14 records.
C15_Witness ==
  /\ IsSummary
  /\ request.sport = Present("NBA") /\ request.minConfidence = Present(<<"8", "0">>)
  /\ request.player = Present(<<"S", "O", "N">>)
  /\ request.sortBy = Present("confidence") /\ request.limit = Present(<<"6">>)
  /\ response.totalPredictions = 14
  /\ response.sportBreakdown.NBA = 6

\* ---- C16 --------------------------------------------------------------
\* The response in flight agrees with snapshot s: a list response returns
\* records of s only and counts in total the records of s that satisfy the
\* filters; a summary response counts s and features records of s only.
C16_FromSnapshot(s) ==
  CASE response.kind = "list" ->
         LET bounds == {n \in 0..100 : toString(n) = request.minConfidence.val}
             matching == {i \in 1..Len(s) : C1_Satisfies(s[i], request, bounds)}
         IN  /\ Range(response.predictions) \subseteq {s[i] : i \in matching}
             /\ response.total = Cardinality(matching)
    [] response.kind = "summary" ->
         /\ response.totalPredictions = Len(s)
         /\ \A sport \in DOMAIN response.sportBreakdown :
               response.sportBreakdown[sport] = Cardinality({i \in 1..Len(s) : s[i].sport = sport})
         /\ \A c \in DOMAIN response.confidenceBreakdown :
               response.confidenceBreakdown[c] =
                 Cardinality({i \in 1..Len(s) : s[i].confidenceCategory = C15_Category[c]})
         /\ Range(response.featuredPredictions) \subseteq Range(s)
    [] OTHER -> TRUE

\* C16: with the snapshot replaced at any moment, every list and summary
\* response agrees in full with one snapshot, the old one or the new one.
C16_OneSnapshot ==
  Responded => \E s \in Snapshots : C16_FromSnapshot(s)

\* C16 witness: a response with records, computed before the snapshot was
\* replaced and not yet delivered: it agrees with the snapshot that was
\* replaced and not with the one now in place.
C16_Witness ==
  /\ Responded
  /\ response.kind = "list" /\ response.total > 0
  /\ ~C16_FromSnapshot(mockPredictions)
  /\ \E s \in Snapshots : C16_FromSnapshot(s)

\* ---- C17 --------------------------------------------------------------
C17_Rank(category) ==
  CASE category = "Very Low" -> 1
    [] category = "Low" -> 2
    [] category = "Moderate" -> 3
    [] category = "High" -> 4
    [] category = "Very High" -> 5

\* The records of the snapshot and those a response carries.
C17_Served ==
  Range(mockPredictions)
    \cup (IF IsList THEN Range(response.predictions) ELSE {})
    \cup (IF IsSummary THEN Range(response.featuredPredictions) ELSE {})

C18_Query ==
  /\ IsList
  /\ mockPredictions = ReferenceDataset
  /\ request.sport = Present("NBA")
  /\ \A f \in {"minConfidence", "date", "stat", "team", "player"} : ~request[f].has
  /\ request.sortBy = Present("confidence") /\ request.sortOrder = Present("desc")
  /\ request.page = Present(<<"1">>) /\ request.limit = Present(<<"6">>)

\* C18: that request is answered with total 6, the 6 NBA records, totalPages
\* 1, and first the record of the highest confidence among them, 92, team GSW.
C18_NbaByConfidence ==
  C18_Query =>
    /\ response.total = 6
    /\ Len(response.predictions) = 6
    /\ Range(response.predictions) = {p \in Range(ReferenceDataset) : p.sport = "NBA"}
    /\ response.totalPages = Num(1)
    /\ response.predictions[1].confidence = 92
    /\ response.predictions[1].team = "GSW"
    /\ \A p \in Range(response.predictions) : p.confidence <= response.predictions[1].confidence

\* C18 witness: the request answered, records 2 and 6 first and last.
C18_Witness ==
  /\ C18_Query
  /\ response.predictions[1] = P2
  /\ response.predictions[6] = P6

\* ---- C19 --------------------------------------------------------------
\* A list request with team=BOS and no other filter, on the reference dataset.
C19_Query ==
  /\ IsList
  /\ mockPredictions = ReferenceDataset
  /\ request.team = Present("BOS")
  /\ \A f \in {"sport", "minConfidence", "date", "stat", "player"} : ~request[f].has

\* C19: that request counts and returns exactly the records with BOS as team
\* or opponent: LAL against BOS and BOS against LAL of the NBA, NYY against
\* BOS of the MLB.
C19_TeamEitherSide ==
  C19_Query =>
    /\ response.total = 3
    /\ Range(response.predictions) = {P1, P6, P10}
    /\ Range(response.predictions) =
         {p \in Range(ReferenceDataset) : p.team = "BOS" \/ p.opponent = "BOS"}
    /\ <<P1.team, P1.opponent, P1.sport>> = <<"LAL", "BOS", "NBA">>
    /\ <<P6.team, P6.opponent, P6.sport>> = <<"BOS", "LAL", "NBA">>
    /\ <<P10.team, P10.opponent, P10.sport>> = <<"NYY", "BOS", "MLB">>

\* C19 witness: the request answered with records of two sports, one of them
\* with BOS as its team.
C19_Witness ==
  /\ C19_Query
  /\ {p.sport : p \in Range(response.predictions)} = {"NBA", "MLB"}
  /\ \E p \in Range(response.predictions) : p.team = "BOS"

\* ---- C20 --------------------------------------------------------------
IsPerformance == pc = "responded" /\ request.endpoint = Present("performance")

\* C20: every performance request is answered with mockPerformance as it is
\* stored, whatever period, startDate and endDate it carries and whatever
\* requests were served before it.
C20_PerformancePassThrough ==
  IsPerformance =>
    response = [kind |-> "performance", status |-> 200, body |-> mockPerformance]

\* C20 witness: a performance request for another period and a custom range.
C20_Witness ==
  /\ IsPerformance
  /\ request.period = Present("30")
  /\ request.startDate = Present("2025-03-01") /\ request.endDate = Present("2025-03-21")
  /\ response.body = mockPerformance

\* ---- C21 --------------------------------------------------------------
\* The label of each level of the filter panel, and the band a confidence
\* falls in under the thresholds 90, 80, 65, 50, 0.
C21_Label ==
  [id \in ConfidenceIds |->
     CASE id = "very-high" -> "Very High"
       [] id = "high" -> "High"
       [] id = "moderate" -> "Moderate"
       [] id = "low" -> "Low"
       [] id = "very-low" -> "Very Low"]

C21_Band(confidence) ==
  IF confidence >= 90 THEN "Very High"
  ELSE IF confidence >= 80 THEN "High"
  ELSE IF confidence >= 65 THEN "Moderate"
  ELSE IF confidence >= 50 THEN "Low"
  ELSE "Very Low"

\* C21: every record is labelled with the band of its confidence, and a list
\* request that carries only the minConfidence the filter panel produces
\* for one checked level keeps exactly the records labelled that level or
\* higher.
C21_TableMatchesLabels ==
  /\ \A p \in Range(mockPredictions) : p.confidenceCategory = C21_Band(p.confidence)
  /\ IsList =>
       \A id \in ConfidenceIds :
          (/\ request.minConfidence = NumberParam(MinConfidenceOf({id}))
           /\ \A f \in {"sport", "date", "stat", "team", "player"} : ~C13_Sent(request)[f].has)
            => Range(FilteredSeq) =
                 {p \in Range(mockPredictions) :
                    C17_Rank(p.confidenceCategory) >= C17_Rank(C21_Label[id])}

\* ---- C22 --------------------------------------------------------------
\* C22: an update without a page key (Apply Filters, a sort change, a stat
\* change) stores page 1 and leaves every field it does not name as it was;
\* an update with a page key stores that page and leaves all other fields.
C22_UpdateFiltersFrame ==
  [][LET before == predictionsHook.filters
         after == predictionsHook'.filters
         Kept(named) == /\ DOMAIN after = DOMAIN before
                        /\ \A k \in DOMAIN before \ named : after[k] = before[k]
     IN  /\ ApplyFilters => after.page = 1 /\ Kept({"page"})
         /\ SortChange => after.page = 1 /\ Kept({"sortBy", "sortOrder", "page"})
         /\ handleStatTypeChange => after.page = 1 /\ Kept({"stat", "page"})
         /\ \A newPage \in 1..(Len(ReferenceDataset) + 1) :
               PageChange(newPage) => after.page = newPage /\ Kept({"page"})]_vars

\* C22 witness: the sort changed while page 2 was shown: filters is back on
\* page 1 with the new sort, the fetch for it still in flight.
C22_Witness ==
  /\ predictionsHook.predictionsData.kind = "list"
  /\ predictionsHook.predictionsData.page = JsonNumber(Num(2))
  /\ predictionsHook.filters.sortBy = "player"
  /\ predictionsHook.filters.page = 1
  /\ Len(predictionsFetches) > 0

\* ---- C23 --------------------------------------------------------------
\* C23: in usePerformanceData a custom date range is stored only while
\* timePeriod is 'custom'.
C23_RangeOnlyWhenCustom ==
  ~performanceHook.customDateRange.null => performanceHook.timePeriod = "custom"

\* C23 witness: a range was stored, then a predefined period chosen (which
\* cleared it), then a range stored again: two fetches in flight, the first
\* for a predefined period without range, and a range in place.
C23_Witness ==
  /\ ~performanceHook.customDateRange.null
  /\ performanceHook.customDateRange.start = "2025-03-01"
  /\ performanceHook.timePeriod = "custom"
  /\ Len(performanceFetches) = 2
  /\ performanceFetches[1].period = Present("30")
  /\ ~performanceFetches[1].startDate.has

\* ---- C24 --------------------------------------------------------------
C24_Threshold(id) ==
  CASE id = "very-high" -> 90
    [] id = "high" -> 80
    [] id = "moderate" -> 65
    [] id = "low" -> 50
    [] id = "very-low" -> 0

\* C24: after every change of a confidence checkbox, filters.minConfidence
\* is the smallest threshold of the checked levels, 0 with no level checked,
\* and is one of 0, 50, 65, 80, 90.
C24_LowestCheckedLevel ==
  [][handleConfidenceChange =>
       /\ predictionsHook'.filters.minConfidence \in {0, 50, 65, 80, 90}
       /\ confidenceChecked' = {} => predictionsHook'.filters.minConfidence = 0
       /\ confidenceChecked' # {} =>
            /\ \E id \in confidenceChecked' :
                  predictionsHook'.filters.minConfidence = C24_Threshold(id)
            /\ \A id \in confidenceChecked' :
                  predictionsHook'.filters.minConfidence <= C24_Threshold(id)]_vars

\* C24 witness: high and very-high checked, minConfidence 80.
C24_Witness ==
  /\ confidenceChecked = {"high", "very-high"}
  /\ predictionsHook.filters.minConfidence = 80

\* ---- C25 --------------------------------------------------------------
\* The body the route returns for the filters now stored in the hook.
C25_LatestBody ==
  ResponseJson(Handle(BuildQuery(predictionsHook.filters), mockPredictions).response)

\* C25: once no fetch is in flight (and none has failed), the predictions,
\* total and totalPages the hook exposes are those of the response to the
\* query of the filters it now holds.
C25_LatestFiltersWin ==
  (predictionsFetches = <<>> /\ ~predictionsHook.error.has) =>
    /\ ExposedPredictions(predictionsHook) = C25_LatestBody.predictions
    /\ ExposedTotal(predictionsHook) = C25_LatestBody.total
    /\ ExposedTotalPages(predictionsHook) = NumberOr(C25_LatestBody.totalPages, 1)

\* ---- C26 --------------------------------------------------------------
\* C26: every step in which a fetch of usePredictionsData returns with an ok
\* response leaves error null.
C26_SuccessClearsError ==
  [][(\E i \in 1..Len(predictionsFetches) :
         /\ FetchReturns(i)
         /\ Handle(predictionsFetches[i], mockPredictions).response.status = 200)
       => ~predictionsHook'.error.has]_vars

\* ---- C27 --------------------------------------------------------------
\* C27: loading is true as long as a fetch issued by usePredictionsData has
\* not returned.
C27_LoadingWhileInFlight ==
  Len(predictionsFetches) > 0 => predictionsHook.loading

\* ---- C28 --------------------------------------------------------------
\* C28: every request to the list endpoint is answered with a list response
\* (predictions, total, page, limit, totalPages), whatever its filter texts.
C28_ListNeverThrows ==
  (Responded /\ request.endpoint = Present("predictions")) => response.kind = "list"

\* ---- C29 --------------------------------------------------------------
\* C29: the totalPages that usePredictionsData exposes is at least 1 in
\* every state of the page: before the first response, after a failed fetch
\* and after a response with total 0.
C29_TotalPagesAtLeastOne ==
  ExposedTotalPages(predictionsHook) >= 1

\* C29 witness: the response in place has total 0 and totalPages 0, another
\* fetch has failed, and the hook exposes totalPages 1.
C29_Witness ==
  /\ predictionsHook.predictionsData.kind = "list"
  /\ predictionsHook.predictionsData.total = 0
  /\ predictionsHook.predictionsData.totalPages = JsonNumber(Num(0))
  /\ predictionsHook.error.has
  /\ ExposedTotalPages(predictionsHook) = 1

\* ---- C30 --------------------------------------------------------------
\* C30: with at least 2 pages and the current page among them, the numbered
\* buttons are min(5, totalPages) consecutive numbers within 1..totalPages,
\* the current page is one of them, and the last-page button is rendered
\* only when totalPages is not one of them.
C30_PageButtonsInRange ==
  pageButtons.rendered =>
    LET page == ExposedPage(predictionsHook)
        totalPages == ExposedTotalPages(predictionsHook)
        numbered == pageButtons.numbered
    IN  (totalPages >= 2 /\ page \in 1..totalPages) =>
          /\ Len(numbered) = (IF totalPages < 5 THEN totalPages ELSE 5)
          /\ \A i \in 1..(Len(numbered) - 1) : numbered[i + 1] = numbered[i] + 1
          /\ \A i \in 1..Len(numbered) : numbered[i] \in 1..totalPages
          /\ \E i \in 1..Len(numbered) : numbered[i] = page
          /\ pageButtons.last => \A i \in 1..Len(numbered) : numbered[i] # totalPages

\* C30 witness: page 5 of 8: buttons 3..7 and the last-page button.
C30_Witness ==
  /\ pageButtons.rendered
  /\ ExposedPage(predictionsHook) = 5 /\ ExposedTotalPages(predictionsHook) = 8
  /\ pageButtons.numbered = <<3, 4, 5, 6, 7>>
  /\ pageButtons.last

====
